---- MODULE Spec2Model ----
(***************************************************************************)
(* Issue lifecycle, batch analysis (runAnalysis), the Feishu streaming     *)
(* auto-reply path and the AI provider list of the LINE/Feishu monitoring  *)
(* server, as state machines translated from the TypeScript sources.       *)
(*                                                                         *)
(* Every await of the source is a point where another request may run.     *)
(* An AI call touches no shared state, so it is folded into the database   *)
(* step that follows it; its answer is an input of that step.              *)
(***************************************************************************)
EXTENDS Integers, Sequences, FiniteSets, TLC

\* ------------------------------------------------------------------ bounds
MaxMsgs == 2          \* messages ever ingested
MaxTime == 2          \* clock ticks (one tick = one minute)
NumRuns == 2          \* concurrent POST /analysis/run requests
NumGroups == 1        \* conversations
MaxTags == 2          \* suggestedTags entries per classifier answer
MaxLag == 1           \* minutes a platform timestamp may lie behind the server clock
MaxFeishu == 1        \* Feishu events come among the first MaxFeishu messages
MaxEntries == 3       \* rows of the knowledge_entries table
MaxBatchSize == 2     \* options.batchSize of embedAllKnowledgeEntries
MaxChunks == 2        \* 'data' events of each output stream of the CLI child
MaxReplies == 2        \* staff messages after the questions of a conversation
MaxProcs == 3         \* cloudflared processes spawned over one behaviour
MaxThread == 7        \* messages of the long conversation: a question, six staff messages

\* ------------------------------------------------------- program constants
ReplyThreshold == 60        \* settings['issue.replyThreshold'] || '60'
TimeoutMinutes == 1         \* settings['issue.timeoutMinutes'] (configured)
ConfidenceThreshold == 50   \* settings['bot.confidenceThreshold'] || '50'
FallbackConfidence == 50    \* analyzeQuestionWithAI catch branch
ScanLimit == 5              \* take: 5 of the reply scan

Runs == 1..NumRuns
Groups == 1..NumGroups
Roles == {"STAFF", "EXTERNAL"}
Statuses == {"PENDING", "REPLIED", "WAITING_CUSTOMER", "TIMEOUT", "RESOLVED", "IGNORED"}
TagNames == {"billing", "invoice"}
Scores == {0, ReplyThreshold - 1, ReplyThreshold, 100}
Confidences == {0, ConfidenceThreshold - 1, ConfidenceThreshold, 100}

\* A nullable column: <<>> is null, <<x>> holds x.
Null == <<>>
Some(x) == <<x>>

VARIABLES
  now,         \* wall clock
  messages,    \* Message table, in id order (id = index)
  inflight,    \* Feishu messages saved whose handleFeishuAutoReply has not run yet
  issues,      \* Issue table (id = index)
  tags,        \* IssueTag table: name -> [exists, usageCount]
  verdict,     \* message id -> what ai.analyzeQuestion last did with the message
  run,         \* the local state of each runAnalysis call
  response,    \* the issue data of the last GET /issues response
  ai,          \* the generateAnswerWithFallback call in progress
  outbox,      \* replies handed to replyFeishuMessage
  autoReplyLog,\* AutoReplyLog table
  stream,      \* what the last handleFeishuAutoReply call was given
  sentiment,   \* Customer.sentiment by customer id; group g belongs to customer g
               \* when that customer exists, and to no customer otherwise
  knowledge,   \* knowledge_entries table (id = index): [isActive, embedded]
  embed,       \* the local state of the embedAllKnowledgeEntries call
  backend,     \* the AI backend call in progress: its promise, and for the CLI
               \* backend the closure of callClaude and its child process
  tunnel       \* the TunnelService singleton, its cloudflared processes and the
               \* start/stop/restart call in progress

vars == <<now, messages, inflight, issues, tags, verdict, run, response, ai,
          outbox, autoReplyLog, stream, sentiment, knowledge, embed, backend, tunnel>>

\* --------------------------------------------------------------- helpers
Range(s) == {s[i] : i \in 1..Len(s)}

RECURSIVE ByCreatedAt(_, _)
\* orderBy: { createdAt: 'asc' } over the message ids S of the table msgs; rows of
\* one createdAt come in id order
ByCreatedAt(msgs, S) ==
  IF S = {} THEN <<>>
  ELSE LET x == CHOOSE y \in S : \A z \in S :
                  \/ msgs[y].createdAt < msgs[z].createdAt
                  \/ (msgs[y].createdAt = msgs[z].createdAt /\ y <= z)
       IN <<x>> \o ByCreatedAt(msgs, S \ {x})

Take(s, n) == IF Len(s) <= n THEN s ELSE SubSeq(s, 1, n)

\* prisma.issue.findUnique({ where: { triggerMessageId } })
FindIssueByTrigger(iss, mid) == {i \in 1..Len(iss) : iss[i].triggerMessageId = mid}

IdleRun ==
  [pc |-> "idle", snap |-> <<>>, idx |-> 0, tagNames |-> {},
   results |-> [messagesAnalyzed |-> 0, issuesCreated |-> 0,
                issuesReplied |-> 0, tagsCreated |-> 0],
   cur |-> 0, pending |-> <<>>, added |-> {}, cands |-> <<>>,
   evaluation |-> Null, flipped |-> FALSE,
   customerIds |-> <<>>, sentimentAnalysis |-> Null, error |-> ""]

\* the settings keys getAllProviders reads; "" is an unset key
NoSettings == [provider |-> "", claudeApiKey |-> FALSE, geminiApiKey |-> FALSE]

NoCallInProgress ==
  [pc |-> "idle", settings |-> NoSettings, providers |-> <<>>, attempted |-> <<>>,
   outcomes |-> <<>>, result |-> ""]

NoBackendCall ==
  [kind |-> "none", pc |-> "idle", finished |-> FALSE, timeout |-> "none",
   child |-> "none", killed |-> FALSE, code |-> Null, errored |-> FALSE,
   stdout |-> 0, stderr |-> 0, settled |-> "", settlements |-> 0]

IdleEmbed ==
  [pc |-> "idle", entries |-> <<>>, entriesToProcess |-> <<>>, batchSize |-> 1,
   i |-> 0, batch |-> <<>>, attempted |-> <<>>, outcomes |-> <<>>,
   results |-> [success |-> 0, failed |-> 0, skipped |-> 0]]

\* The Sentiment enum of the Customer table
Sentiments == {"POSITIVE", "NEUTRAL", "NEGATIVE", "AT_RISK"}

\* private process = null, url = null, startedAt = null, error = null; no
\* cloudflared process yet, no call in progress. A process is named by its
\* number, 0 is null; the URL a process prints is named by the process.
NoTunnelCall ==
  [op |-> "none", pc |-> "idle", waitsFor |-> 0, child |-> 0, timer |-> "none",
   result |-> "", url |-> 0]

NoTunnel ==
  [process |-> 0, url |-> 0, startedAt |-> Null, error |-> "",
   procs |-> [p \in 1..MaxProcs |-> [state |-> "none", killed |-> FALSE, printed |-> FALSE]],
   call |-> NoTunnelCall]

\* The message, issue and log tables are empty and the server's clock reads t.
InitStore(t) ==
  /\ now = t
  /\ messages = <<>>
  /\ inflight = {}
  /\ issues = <<>>
  /\ tags = [n \in TagNames |-> [exists |-> FALSE, usageCount |-> 0]]
  /\ verdict = [m \in 1..MaxMsgs |-> "none"]
  /\ run = [r \in Runs |-> IdleRun]
  /\ response = Null
  /\ ai = NoCallInProgress
  /\ outbox = <<>>
  /\ autoReplyLog = <<>>
  /\ stream = Null
  /\ embed = IdleEmbed
  /\ backend = NoBackendCall
  /\ tunnel = NoTunnel

\* no group is linked to a customer, the knowledge base is empty
InitAt(t) == InitStore(t) /\ sentiment = <<>> /\ knowledge = <<>>

\* every group is linked to a customer, whose stored sentiment is any
InitCustomers ==
  InitStore(MaxLag) /\ sentiment \in [Groups -> Sentiments] /\ knowledge = <<>>

\* a knowledge base of MaxEntries rows, active or not, embedded or not
InitKnowledge ==
  /\ InitStore(0)
  /\ sentiment = <<>>
  /\ knowledge \in [1..MaxEntries -> [isActive : BOOLEAN, embedded : BOOLEAN]]

Init == InitAt(0)

\* the server has been up for a while: earlier timestamps exist
InitLate == InitAt(MaxLag)

\* One more call of ai.analyzeQuestion on message mid: "failed" when it threw
\* (kept only while no answer is on record), else the isQuestion answer.
RecordCall(v, mid, outcome) ==
  IF outcome.failed
  THEN [v EXCEPT ![mid] = IF @ = "none" THEN "failed" ELSE @]
  ELSE [v EXCEPT ![mid] = IF outcome.isQuestion THEN "q" ELSE "nq"]

\* the messages passed to ai.analyzeQuestion so far
Classified == {m \in 1..Len(messages) : verdict[m] # "none"}

\* Issue rows carry their IssueTagRelation rows as tags: tag name -> row count.
NoTags == [n \in TagNames |-> 0]

\* ----------------------------------------------------------------- clock
Tick ==
  /\ now < MaxTime
  /\ now' = now + 1
  /\ UNCHANGED <<messages, inflight, issues, tags, verdict,
                 run, response, ai, outbox, autoReplyLog, stream, sentiment, knowledge, embed, backend, tunnel>>

\* ------------------------------------------------------------- ingestion
\* prisma.message.create of both webhooks: createdAt is the timestamp the
\* platform put on the event, which is no later than the server's clock.
NewMessage(role, content, g, ts) ==
  [role |-> role, content |-> content, createdAt |-> ts, groupId |-> g]

\* POST /webhook/line, handleMessageEvent: the message is stored, nothing else.
LineWebhook(role, content, g, ts) ==
  /\ Len(messages) < MaxMsgs
  /\ messages' = Append(messages, NewMessage(role, content, g, ts))
  /\ UNCHANGED <<now, inflight, issues, tags, verdict, run, response, ai,
                 outbox, autoReplyLog, stream, sentiment, knowledge, embed, backend, tunnel>>

\* POST /webhook/line in a conversation of up to MaxThread messages
LineWebhookThread(role, content, g, ts) ==
  /\ Len(messages) < MaxThread
  /\ messages' = Append(messages, NewMessage(role, content, g, ts))
  /\ UNCHANGED <<now, inflight, issues, tags, verdict, run, response, ai,
                 outbox, autoReplyLog, stream, sentiment, knowledge, embed, backend, tunnel>>

\* if (content && messageType === MessageType.TEXT) of handleFeishuMessage
WantsAutoReply(m) == m.content

\* POST /webhook/feishu, handleFeishuMessage up to the call of
\* handleFeishuAutoReply: the message is stored; a text message goes on to the
\* auto-reply handler, which runs after further awaits.
FeishuWebhook(role, content, g, ts) ==
  /\ Len(messages) < MaxMsgs
  /\ LET m == NewMessage(role, content, g, ts) IN
       /\ messages' = Append(messages, m)
       /\ inflight' = IF WantsAutoReply(m) THEN inflight \cup {Len(messages) + 1}
                      ELSE inflight
  /\ UNCHANGED <<now, issues, tags, verdict, run, response, ai,
                 outbox, autoReplyLog, stream, sentiment, knowledge, embed, backend, tunnel>>

\* ----------------------------------------------------------- issue table
\* a store whose triggerMessageId column accepts duplicates
UniqueViolationOff(iss, mid) == FALSE

\* The unique column triggerMessageId (findUnique({ where: { triggerMessageId } }))
\* rejects a second row for one trigger message.
UniqueViolation(iss, mid) == FindIssueByTrigger(iss, mid) # {}

\* new Date(message.createdAt.getTime() + timeoutMinutes * 60 * 1000)
BatchTimeoutAt(m) == m.createdAt + TimeoutMinutes

\* new Date(Date.now() + timeoutMinutes * 60 * 1000)
StreamTimeoutAt == now + TimeoutMinutes

\* the row prisma.issue.create of runAnalysis inserts
BatchIssue(mid) ==
  [triggerMessageId |-> mid, status |-> "PENDING",
   timeoutAt |-> BatchTimeoutAt(messages[mid]), resolvedAt |-> Null,
   replyMessageId |-> Null, repliedAt |-> Null, replyRelevanceScore |-> Null,
   groupId |-> messages[mid].groupId, tags |-> NoTags]

\* the row prisma.issue.create of createIssueForQuestion inserts
StreamIssue(mid, autoReplied) ==
  [triggerMessageId |-> mid,
   status |-> IF autoReplied THEN "REPLIED" ELSE "PENDING",
   timeoutAt |-> StreamTimeoutAt, resolvedAt |-> Null,
   replyMessageId |-> Null,
   repliedAt |-> IF autoReplied THEN Some(now) ELSE Null,
   replyRelevanceScore |-> Null,
   groupId |-> messages[mid].groupId, tags |-> NoTags]

\* ---------------------------------------------------------- issue routes
\* update routes that never write resolvedAt
StampResolvedOff(status) == FALSE

\* if (data.status === 'RESOLVED') updateData.resolvedAt = new Date()
StampResolved(status) == status = "RESOLVED"

\* updateData of PUT /issues/:id and of POST /issues/batch-update-status
UpdateData(row, status) ==
  IF StampResolved(status)
  THEN [row EXCEPT !.status = status, !.resolvedAt = Some(now)]
  ELSE [row EXCEPT !.status = status]

\* PUT /issues/:id with body { status }
PutIssue(i, status) ==
  /\ i \in 1..Len(issues)
  /\ issues' = [issues EXCEPT ![i] = UpdateData(@, status)]
  /\ UNCHANGED <<now, messages, inflight, tags, verdict, run, response, ai,
                 outbox, autoReplyLog, stream, sentiment, knowledge, embed, backend, tunnel>>

\* POST /issues/batch-update-status with body { ids, status }
BatchUpdateStatus(ids, status) ==
  /\ ids # {}
  /\ issues' = [i \in 1..Len(issues) |->
                  IF i \in ids THEN UpdateData(issues[i], status) ELSE issues[i]]
  /\ UNCHANGED <<now, messages, inflight, tags, verdict, run, response, ai,
                 outbox, autoReplyLog, stream, sentiment, knowledge, embed, backend, tunnel>>

\* GET /issues/:id: the stored row is returned as it is.
GetIssue(i) ==
  /\ i \in 1..Len(issues)
  /\ response' = Some([id |-> i, status |-> issues[i].status])
  /\ UNCHANGED <<now, messages, inflight, issues, tags, verdict, run, ai,
                 outbox, autoReplyLog, stream, sentiment, knowledge, embed, backend, tunnel>>

\* GET /issues: the stored rows are returned as they are.
ListIssues ==
  /\ Len(issues) > 0
  /\ response' = [i \in 1..Len(issues) |-> [id |-> i, status |-> issues[i].status]]
  /\ UNCHANGED <<now, messages, inflight, issues, tags, verdict, run, ai,
                 outbox, autoReplyLog, stream, sentiment, knowledge, embed, backend, tunnel>>

\* ------------------------------------------------- Feishu auto-reply path
\* What ai.analyzeQuestion may do: throw, or answer.
ClassifierAnswers ==
  [isQuestion : BOOLEAN, confidence : Confidences, failed : {FALSE}]
ClassifierOutcomes ==
  ClassifierAnswers \cup {[isQuestion |-> FALSE, confidence |-> 0, failed |-> TRUE]}

\* What searchKnowledge may do: throw, return null, or return a match.
SearchOutcomes ==
  {[kind |-> "throw", confidence |-> 0], [kind |-> "none", confidence |-> 0]}
  \cup [kind : {"match"}, confidence : Confidences]

\* analyzeQuestionWithAI: the catch branch substitutes an answer
AnalyzeQuestionWithAI(cls) ==
  IF cls.failed
  THEN [isQuestion |-> TRUE, confidence |-> FallbackConfidence]
  ELSE [isQuestion |-> cls.isQuestion, confidence |-> cls.confidence]

\* handleFeishuAutoReply never looks at the author's role
StreamCallsClassifier(m, groupEnabled, mentioned) ==
  groupEnabled /\ ~mentioned

\* the local variables isQuestion and questionConfidence after Step 2
StreamAnalysis(mentioned, cls) ==
  IF mentioned THEN [isQuestion |-> TRUE, confidence |-> 100]
  ELSE AnalyzeQuestionWithAI(cls)

\* isQuestion && questionConfidence >= confidenceThreshold
Qualifies(a) == a.isQuestion /\ a.confidence >= ConfidenceThreshold

HasAnyMatch(search) == search.kind = "match"

\* const hasGoodMatch = result && knowledgeConfidence >= confidenceThreshold
HasGoodMatch(search) ==
  search.kind = "match" /\ search.confidence >= ConfidenceThreshold

DidReplyOnAttempt(mentioned, search, sendOk) == mentioned \/ HasGoodMatch(search)

\* didReply at Step 5: a reply was attempted and the send returned a message id
DidReply(mentioned, search, sendOk) ==
  (mentioned \/ HasGoodMatch(search)) /\ sendOk

\* Step 3 is reached: the group and the bot have auto-reply on, and shouldProcess
StreamReachesSearch(groupEnabled, autoReplyEnabled, mentioned, cls) ==
  /\ groupEnabled
  /\ autoReplyEnabled
  /\ (mentioned \/ Qualifies(StreamAnalysis(mentioned, cls)))

StreamSendsOnMatchOnly(groupEnabled, autoReplyEnabled, mentioned, cls, search) ==
  /\ StreamReachesSearch(groupEnabled, autoReplyEnabled, mentioned, cls)
  /\ HasGoodMatch(search)

\* replyFeishuMessage is called: const shouldReply = botNameMentioned || hasGoodMatch
StreamSends(groupEnabled, autoReplyEnabled, mentioned, cls, search) ==
  /\ StreamReachesSearch(groupEnabled, autoReplyEnabled, mentioned, cls)
  /\ search.kind # "throw"
  /\ (mentioned \/ HasGoodMatch(search))

\* Whether handleFeishuAutoReply reaches createIssueForQuestion, and with which
\* autoReplied: <<>> when it does not, <<autoReplied>> when it does.
StreamCreate(groupEnabled, autoReplyEnabled, mentioned, cls, search, sendOk) ==
  LET a == StreamAnalysis(mentioned, cls) IN
  IF ~groupEnabled THEN Null
  ELSE IF ~autoReplyEnabled
       THEN (IF Qualifies(a) THEN Some(FALSE) ELSE Null)
  ELSE IF ~(mentioned \/ Qualifies(a)) THEN Null
  ELSE IF search.kind = "throw" THEN Null
  ELSE IF Qualifies(a) THEN Some(DidReply(mentioned, search, sendOk))
  ELSE Null

\* Step 4: which reply goes to replyFeishuMessage: the knowledge answer, the
\* bot.notFoundReply text, or none
StreamReply(groupEnabled, autoReplyEnabled, mentioned, cls, search) ==
  IF ~StreamSends(groupEnabled, autoReplyEnabled, mentioned, cls, search) THEN "none"
  ELSE IF search.kind = "match" THEN "answer"
  ELSE "notFound"

\* const knowledgeConfidence = result?.confidence || 0
KnowledgeConfidence(search) == IF search.kind = "match" THEN search.confidence ELSE 0

\* The matched and confidence of the logAutoReply call of Step 4: <<>> when
\* the handler makes none.
StreamLog(groupEnabled, autoReplyEnabled, mentioned, cls, search) ==
  IF ~StreamReachesSearch(groupEnabled, autoReplyEnabled, mentioned, cls)
     \/ search.kind = "throw"
  THEN Null
  ELSE LET reply == StreamReply(groupEnabled, autoReplyEnabled, mentioned, cls, search)
       IN Some([matched |-> reply = "answer",
                confidence |-> IF reply = "notFound" THEN 0
                               ELSE KnowledgeConfidence(search)])

\* handleFeishuAutoReply(messageId = mid): one step, after the message was saved.
\* A unique-constraint error of prisma.issue.create is caught by the outer catch.
FeishuAutoReply(mid, groupEnabled, autoReplyEnabled, mentioned, cls, search, sendOk) ==
  /\ mid \in inflight
  /\ inflight' = inflight \ {mid}
  /\ LET called == StreamCallsClassifier(messages[mid], groupEnabled, mentioned)
         reply == StreamReply(groupEnabled, autoReplyEnabled, mentioned, cls, search)
         log == StreamLog(groupEnabled, autoReplyEnabled, mentioned, cls, search)
         create == StreamCreate(groupEnabled, autoReplyEnabled, mentioned, cls,
                                search, sendOk)
     IN /\ verdict' = IF called THEN RecordCall(verdict, mid, cls) ELSE verdict
        /\ outbox' = IF reply # "none"
                     THEN Append(outbox, [messageId |-> mid, kind |-> reply,
                                          delivered |-> sendOk])
                     ELSE outbox
        /\ autoReplyLog' = IF log # Null
                           THEN Append(autoReplyLog,
                                       [messageId |-> mid, matched |-> log[1].matched,
                                        confidence |-> log[1].confidence])
                           ELSE autoReplyLog
        /\ issues' = IF create # Null /\ ~UniqueViolation(issues, mid)
                     THEN Append(issues, StreamIssue(mid, create[1]))
                     ELSE issues
  /\ stream' = Some([mid |-> mid, groupEnabled |-> groupEnabled,
                     autoReplyEnabled |-> autoReplyEnabled, mentioned |-> mentioned,
                     cls |-> cls, search |-> search, sendOk |-> sendOk,
                     searched |-> StreamReachesSearch(groupEnabled, autoReplyEnabled,
                                                      mentioned, cls),
                     issueId |-> IF Len(issues') > Len(issues)
                                 THEN Len(issues') ELSE 0])
  /\ UNCHANGED <<now, messages, tags, run, response, ai, sentiment, knowledge, embed, backend, tunnel>>

\* ------------------------------------------------------ AI backend calls
\* How a backend is reached: ClaudeCodeOAuthProvider spawns the CLI,
\* OllamaProvider calls fetch, ClaudeProvider the vendor SDK.
BackendKinds == {"cli", "fetch", "sdk"}

\* the exit codes 'close' may carry: 0, non-zero, null (ended by a signal)
CloseCodes == {"0", "1", "null"}

\* resolve or reject of the call's promise: a promise keeps its first settlement
Settle(b, outcome) ==
  [b EXCEPT !.pc = "settled",
            !.settled = IF @ = "" THEN outcome ELSE @,
            !.settlements = @ + 1]

\* handlers that run whatever happened before
NeverFinished(b) == FALSE

\* if (finished) return, if (!finished) { ... }
AlreadyFinished(b) == b.finished

\* callClaude up to the return of the promise: the child is spawned, the timer
\* set; generate and messages.create: the request is sent, with no timer.
CallBackend(kind) ==
  /\ backend.pc = "idle"
  /\ backend' = IF kind = "cli"
                THEN [NoBackendCall EXCEPT !.kind = kind, !.pc = "pending",
                                           !.timeout = "set", !.child = "running"]
                ELSE [NoBackendCall EXCEPT !.kind = kind, !.pc = "pending"]
  /\ UNCHANGED <<now, messages, inflight, issues, tags, verdict, run, response, ai,
                 outbox, autoReplyLog, stream, sentiment, knowledge, embed, tunnel>>

\* child.stdout.on('data'): stdout += data.toString()
StdoutData ==
  /\ backend.child = "running"
  /\ backend.stdout < MaxChunks
  /\ backend' = [backend EXCEPT !.stdout = @ + 1]
  /\ UNCHANGED <<now, messages, inflight, issues, tags, verdict, run, response, ai,
                 outbox, autoReplyLog, stream, sentiment, knowledge, embed, tunnel>>

\* child.stderr.on('data'): stderr += data.toString()
StderrData ==
  /\ backend.child = "running"
  /\ backend.stderr < MaxChunks
  /\ backend' = [backend EXCEPT !.stderr = @ + 1]
  /\ UNCHANGED <<now, messages, inflight, issues, tags, verdict, run, response, ai,
                 outbox, autoReplyLog, stream, sentiment, knowledge, embed, tunnel>>

\* the setTimeout callback of callClaude
TimerFires ==
  /\ backend.timeout = "set"
  /\ LET fired == [backend EXCEPT !.timeout = "fired"]
     IN backend' = IF AlreadyFinished(backend) THEN fired
                   ELSE Settle([fired EXCEPT !.finished = TRUE, !.killed = TRUE],
                               "timeout")
  /\ UNCHANGED <<now, messages, inflight, issues, tags, verdict, run, response, ai,
                 outbox, autoReplyLog, stream, sentiment, knowledge, embed, tunnel>>

\* clearTimeout(timeout): a timer that has fired stays fired
ClearTimeout(b) == [b EXCEPT !.timeout = IF @ = "set" THEN "cleared" ELSE @]

\* child.on('close', (code) => ...): the child has ended, by itself or by a signal
ChildClose(code) ==
  /\ backend.child = "running"
  /\ LET closed == [backend EXCEPT !.child = "closed", !.code = Some(code)]
     IN backend' = IF AlreadyFinished(backend) THEN closed
                   ELSE Settle(ClearTimeout([closed EXCEPT !.finished = TRUE]),
                               IF code = "0" THEN "resolved" ELSE "exit")
  /\ UNCHANGED <<now, messages, inflight, issues, tags, verdict, run, response, ai,
                 outbox, autoReplyLog, stream, sentiment, knowledge, embed, tunnel>>

\* child.on('error', (err) => ...): spawn failed, or the child could not be
\* signalled; 'close' may or may not follow
ChildError ==
  /\ backend.kind = "cli"
  /\ backend.pc # "idle"
  /\ ~backend.errored
  /\ LET seen == [backend EXCEPT !.errored = TRUE]
     IN backend' = IF AlreadyFinished(backend) THEN seen
                   ELSE Settle(ClearTimeout([seen EXCEPT !.finished = TRUE]), "spawn")
  /\ UNCHANGED <<now, messages, inflight, issues, tags, verdict, run, response, ai,
                 outbox, autoReplyLog, stream, sentiment, knowledge, embed, tunnel>>

\* the answer or the error of fetch / messages.create arrives
HttpSettles(outcome) ==
  /\ backend.kind \in {"fetch", "sdk"}
  /\ backend.pc = "pending"
  /\ backend' = Settle(backend, outcome)
  /\ UNCHANGED <<now, messages, inflight, issues, tags, verdict, run, response, ai,
                 outbox, autoReplyLog, stream, sentiment, knowledge, embed, tunnel>>

\* the caller has the result, and nothing of the call is left to happen
BackendCallOver ==
  /\ backend.pc = "settled"
  /\ backend.kind = "cli" => (backend.child = "closed" /\ backend.timeout # "set")
  /\ backend' = NoBackendCall
  /\ UNCHANGED <<now, messages, inflight, issues, tags, verdict, run, response, ai,
                 outbox, autoReplyLog, stream, sentiment, knowledge, embed, tunnel>>

\* ------------------------------------------------ embedAllKnowledgeEntries
\* Array.prototype.slice(a, b) with 0 <= a: the elements of index a .. b - 1,
\* counted from 0, as far as they exist
Slice(s, a, b) ==
  LET hi == IF b < Len(s) THEN b ELSE Len(s)
  IN IF a >= hi THEN <<>> ELSE SubSeq(s, a + 1, hi)

RECURSIVE Filter(_, _)
\* entries.filter(e => keep.has(e)) over a sequence of ids
Filter(s, keep) ==
  IF s = <<>> THEN <<>>
  ELSE IF Head(s) \in keep THEN <<Head(s)>> \o Filter(Tail(s), keep)
       ELSE Filter(Tail(s), keep)

\* What generateEmbedding and the UPDATE of one entry may do
EmbedOutcomes == {"stored", "embedding failed", "store failed"}

\* a loop that moves on by one entry more than the batch it took
NextBatchSkipping(i, batchSize) == i + batchSize + 1

\* for (let i = 0; ...; i += batchSize)
NextBatch(i, batchSize) == i + batchSize

\* embedAllKnowledgeEntries up to the batch loop: the active entries, those
\* without embedding unless force, the skipped count, the first slice.
EmbedAllKnowledgeEntries(force, batchSize) ==
  /\ embed.pc = "idle"
  /\ LET ids == {e \in 1..Len(knowledge) : knowledge[e].isActive}
         entries == Filter([e \in 1..Len(knowledge) |-> e], ids)
         idsWithEmbedding == {e \in ids : knowledge[e].embedded}
         entriesToProcess == IF force THEN entries
                             ELSE Filter(entries, ids \ idsWithEmbedding)
     IN embed' = [IdleEmbed EXCEPT
                    !.pc = IF entriesToProcess = <<>> THEN "done" ELSE "loop",
                    !.entries = entries,
                    !.entriesToProcess = entriesToProcess,
                    !.batchSize = batchSize,
                    !.batch = Slice(entriesToProcess, 0, batchSize),
                    !.results.skipped = Len(entries) - Len(entriesToProcess)]
  /\ UNCHANGED <<now, messages, inflight, issues, tags, verdict, run, response, ai,
                 outbox, autoReplyLog, stream, sentiment, knowledge, backend, tunnel>>

\* One entry of the batch: generateEmbedding, the UPDATE, the counters; after
\* the last entry of a batch the next slice, after the last slice the return.
EmbedEntry(outcome) ==
  /\ embed.pc = "loop"
  /\ LET entry == Head(embed.batch)
         rest == Tail(embed.batch)
         i2 == NextBatch(embed.i, embed.batchSize)
         more == i2 < Len(embed.entriesToProcess)
         counted == IF outcome = "stored"
                    THEN [embed.results EXCEPT !.success = @ + 1]
                    ELSE [embed.results EXCEPT !.failed = @ + 1]
     IN /\ knowledge' = IF outcome = "stored"
                        THEN [knowledge EXCEPT ![entry].embedded = TRUE]
                        ELSE knowledge
        /\ embed' = [embed EXCEPT
                       !.attempted = Append(@, entry),
                       !.outcomes = Append(@, outcome),
                       !.results = counted,
                       !.i = IF rest = <<>> THEN i2 ELSE @,
                       !.batch = IF rest # <<>> THEN rest
                                 ELSE IF more
                                 THEN Slice(embed.entriesToProcess, i2,
                                            i2 + embed.batchSize)
                                 ELSE <<>>,
                       !.pc = IF rest = <<>> /\ ~more THEN "done" ELSE "loop"]
  /\ UNCHANGED <<now, messages, inflight, issues, tags, verdict, run, response, ai,
                 outbox, autoReplyLog, stream, sentiment, backend, tunnel>>

\* the caller has the counts; the next call may start
EmbedReturn ==
  /\ embed.pc = "done"
  /\ embed' = IdleEmbed
  /\ UNCHANGED <<now, messages, inflight, issues, tags, verdict, run, response, ai,
                 outbox, autoReplyLog, stream, sentiment, knowledge, backend, tunnel>>

\* ------------------------------------------------------------ runAnalysis
RECURSIVE SeqsUpTo(_, _)
\* the sequences over S of length at most n
SeqsUpTo(S, n) ==
  IF n = 0 THEN {<<>>}
  ELSE LET shorter == SeqsUpTo(S, n - 1)
       IN shorter \cup {Append(q, x) : q \in shorter, x \in S}

\* What ai.analyzeQuestion may do in runAnalysis: throw, or answer.
AnalysisOutcomes ==
  [failed : {FALSE}, isQuestion : BOOLEAN, suggestedTags : SeqsUpTo(TagNames, MaxTags)]
  \cup {[failed |-> TRUE, isQuestion |-> FALSE, suggestedTags |-> <<>>]}

\* What ai.findSimilarTag may do: throw, or answer; similarTag "" is null.
SimilarityOutcomes ==
  [failed : {FALSE}, shouldMerge : BOOLEAN, similarTag : TagNames \cup {""}]
  \cup {[failed |-> TRUE, shouldMerge |-> FALSE, similarTag |-> ""]}

\* What ai.evaluateReply may do: throw, or answer.
EvaluationOutcomes ==
  [failed : {FALSE}, relevanceScore : Scores, isCounterQuestion : BOOLEAN]
  \cup {[failed |-> TRUE, relevanceScore |-> 0, isCounterQuestion |-> FALSE]}

\* prisma.message.findMany({ where: whereClause, orderBy: { createdAt: 'asc' } });
\* since = 0 and g = 0 stand for an absent parameter.
WindowMessages(since, g) ==
  ByCreatedAt(messages, {i \in 1..Len(messages) :
              /\ messages[i].createdAt >= since
              /\ (g = 0 \/ messages[i].groupId = g)})

\* if (message.member.role === MemberRole.STAFF) continue;
\* if (!message.content) continue
IsAnalysable(m) == m.role # "STAFF" /\ m.content

\* a loop that never skips a message on account of an existing Issue
AlreadyProcessedOff(iss, mid) == FALSE

\* if (existingIssue) continue
AlreadyProcessed(iss, mid) == FindIssueByTrigger(iss, mid) # {}

\* if (!analysis.isQuestion) continue
IsQuestionGate(analysis) == analysis.isQuestion

\* runAnalysis left by an exception of an AI call: its locals are gone, nothing
\* is returned
Failed == [IdleRun EXCEPT !.pc = "failed", !.error = "ai"]

\* runAnalysis left by the unique-constraint error of prisma.issue.create
FailedOnConflict == [IdleRun EXCEPT !.pc = "failed", !.error = "P2002"]

\* runAnalysis left by the rejection of prisma.issueTag.create: a row of that
\* name exists
FailedOnTagConflict == [IdleRun EXCEPT !.pc = "failed", !.error = "P2002 tag"]

\* runAnalysis returned results; snap and flipped are kept for the record
Returned(st) ==
  [IdleRun EXCEPT !.pc = "done", !.results = st.results, !.snap = st.snap,
                  !.flipped = st.flipped, !.sentimentAnalysis = st.sentimentAnalysis]

\* m.group.customerId: 0 for a group without customer
CustomerId(g) == IF g \in DOMAIN sentiment THEN g ELSE 0

RECURSIVE CustomerIds(_)
\* [...new Set(messages.map((m) => m.group.customerId).filter(Boolean))]: the
\* customers of the window's messages, each once, in order of first appearance
CustomerIds(snap) ==
  IF snap = <<>> THEN <<>>
  ELSE LET front == CustomerIds(SubSeq(snap, 1, Len(snap) - 1))
           c == CustomerId(messages[snap[Len(snap)]].groupId)
       IN IF c = 0 \/ c \in Range(front) THEN front ELSE Append(front, c)

\* recentCustomerMessages: the customer's messages from members that are not
\* staff, with content; take: 20 is above MaxMsgs
RecentCustomerMessages(c) ==
  {m \in 1..Len(messages) :
     /\ CustomerId(messages[m].groupId) = c
     /\ messages[m].role # "STAFF"
     /\ messages[m].content}

\* What ai.analyzeCustomerSentiment may do: throw, or return a parsed object
\* whose sentiment is one of the four names or some other value.
SentimentOutcomes ==
  [failed : {FALSE}, sentiment : {"positive", "neutral", "negative", "at_risk", "other"}]
  \cup {[failed |-> TRUE, sentiment |-> "other"]}

MapSentiment(name) ==
  CASE name = "positive" -> "POSITIVE"
    [] name = "negative" -> "NEGATIVE"
    [] OTHER -> "NEUTRAL"

\* function mapSentimentExtended(sentiment): Sentiment
MapSentimentExtended(name) ==
  CASE name = "positive" -> "POSITIVE"
    [] name = "negative" -> "NEGATIVE"
    [] name = "at_risk" -> "AT_RISK"
    [] OTHER -> "NEUTRAL"

\* runAnalysis up to the message loop: settings, the message window, the tag names.
StartRun(r, since, g) ==
  /\ run[r].pc = "idle"
  /\ LET snap == WindowMessages(since, g) IN
     run' = [run EXCEPT ![r] =
               [IdleRun EXCEPT
                  !.pc = "loop", !.snap = snap, !.idx = 1,
                  !.tagNames = {n \in TagNames : tags[n].exists}]]
  /\ UNCHANGED <<now, messages, inflight, issues, tags, verdict, response, ai,
                 outbox, autoReplyLog, stream, sentiment, knowledge, embed, backend, tunnel>>

\* The head of one loop iteration: the two filters and the findUnique; past the
\* last message, the return of the results.
LoopStep(r) ==
  /\ run[r].pc = "loop"
  /\ LET st == run[r] IN
     IF st.idx > Len(st.snap)
     THEN IF CustomerIds(st.snap) = <<>>
          THEN run' = [run EXCEPT ![r] = Returned(st)]
          ELSE run' = [run EXCEPT ![r].pc = "sentiment",
                                  ![r].customerIds = CustomerIds(st.snap)]
     ELSE LET mid == st.snap[st.idx] IN
          IF ~IsAnalysable(messages[mid])
             THEN run' = [run EXCEPT ![r].idx = @ + 1, ![r].evaluation = Null]
             ELSE IF AlreadyProcessed(issues, mid)
             THEN run' = [run EXCEPT ![r].idx = @ + 1, ![r].evaluation = Null,
                                     ![r].results.messagesAnalyzed = @ + 1]
             ELSE run' = [run EXCEPT ![r].pc = "classify", ![r].evaluation = Null,
                                     ![r].results.messagesAnalyzed = @ + 1]
  /\ UNCHANGED <<now, messages, inflight, issues, tags, verdict, response, ai,
                 outbox, autoReplyLog, stream, sentiment, knowledge, embed, backend, tunnel>>

\* ai.analyzeQuestion(message.content), then prisma.issue.create: an error of
\* either leaves runAnalysis by exception.
ClassifyStep(r, analysis) ==
  /\ run[r].pc = "classify"
  /\ LET st == run[r]
         mid == st.snap[st.idx]
         answer == IF analysis.isQuestion THEN "q" ELSE "nq"
     IN
     /\ verdict' = RecordCall(verdict, mid, analysis)
     /\ IF analysis.failed
        THEN /\ run' = [run EXCEPT ![r] = Failed]
             /\ issues' = issues
        ELSE LET flip == st.flipped \/ (verdict[mid] \in {"q", "nq"} \ {answer}) IN
             IF ~IsQuestionGate(analysis)
             THEN /\ run' = [run EXCEPT ![r].pc = "loop", ![r].idx = @ + 1,
                                        ![r].flipped = flip]
                  /\ issues' = issues
             ELSE IF UniqueViolation(issues, mid)
             THEN /\ run' = [run EXCEPT ![r] = FailedOnConflict]
                  /\ issues' = issues
             ELSE /\ issues' = Append(issues, BatchIssue(mid))
                  /\ run' = [run EXCEPT ![r].pc = "tags",
                                        ![r].flipped = flip,
                                        ![r].results.issuesCreated = @ + 1,
                                        ![r].cur = Len(issues) + 1,
                                        ![r].pending = analysis.suggestedTags,
                                        ![r].added = {}]
  /\ UNCHANGED <<now, messages, inflight, tags, response, ai,
                 outbox, autoReplyLog, stream, sentiment, knowledge, embed, backend, tunnel>>

\* findSimilarTag of every provider: no AI call on an empty vocabulary
FindSimilarTag(existingTags, sim) ==
  IF existingTags = {}
  THEN [failed |-> FALSE, shouldMerge |-> FALSE, similarTag |-> ""]
  ELSE sim

\* if (similarity.shouldMerge && similarity.similarTag)
ShouldMerge(similarity) == similarity.shouldMerge /\ similarity.similarTag # ""

\* a tag loop without addedTagIds
ShouldAttachAgain(tgs, added, name) == tgs[name].exists

\* if (tag && !addedTagIds.has(tag.id))
ShouldAttach(tgs, added, name) == tgs[name].exists /\ name \notin added

\* a findMany without take
SubsequentMessagesUncapped(mid) ==
  ByCreatedAt(messages, {i \in 1..Len(messages) :
              /\ messages[i].groupId = messages[mid].groupId
              /\ messages[i].createdAt > messages[mid].createdAt
              /\ messages[i].role = "STAFF"})
\* the reply scan's findMany: staff messages of the conversation later than the
\* trigger, createdAt ascending, take 5
SubsequentMessages(mid) ==
  Take(ByCreatedAt(messages, {i \in 1..Len(messages) :
                   /\ messages[i].groupId = messages[mid].groupId
                   /\ messages[i].createdAt > messages[mid].createdAt
                   /\ messages[i].role = "STAFF"}), ScanLimit)

\* One iteration of the suggestedTags loop; after the last tag, the reply scan's
\* findMany.
TagStep(r, sim) ==
  /\ run[r].pc = "tags"
  /\ LET st == run[r] IN
     IF st.pending = <<>>
     THEN /\ run' = [run EXCEPT ![r].pc = "scan",
                                ![r].cands = SubsequentMessages(st.snap[st.idx])]
          /\ UNCHANGED <<tags, issues>>
     ELSE
       LET tagName == Head(st.pending)
           similarity == FindSimilarTag(st.tagNames, sim)
           merge == ShouldMerge(similarity)
           tagToUse == IF merge THEN similarity.similarTag ELSE tagName
           creates == ~merge /\ tagName \notin st.tagNames
       IN
       IF similarity.failed
       THEN \* the AI call threw
            /\ run' = [run EXCEPT ![r] = Failed]
            /\ UNCHANGED <<tags, issues>>
       ELSE IF creates /\ tags[tagName].exists
       THEN \* issueTag.create hit the unique name: P2002, not caught
            /\ run' = [run EXCEPT ![r] = FailedOnTagConflict]
            /\ UNCHANGED <<tags, issues>>
       ELSE
         LET created == IF creates
                        THEN [tags EXCEPT ![tagName] = [exists |-> TRUE, usageCount |-> 0]]
                        ELSE tags
             attach == ShouldAttach(created, st.added, tagToUse)
         IN
         /\ tags' = IF attach
                    THEN [created EXCEPT ![tagToUse].usageCount = @ + 1]
                    ELSE created
         /\ issues' = IF attach
                      THEN [issues EXCEPT ![st.cur].tags[tagToUse] = @ + 1]
                      ELSE issues
         /\ run' = [run EXCEPT
                      ![r].pending = Tail(@),
                      ![r].tagNames = IF creates THEN @ \cup {tagName} ELSE @,
                      ![r].results.tagsCreated = IF creates THEN @ + 1 ELSE @,
                      ![r].added = IF attach THEN @ \cup {tagToUse} ELSE @]
  /\ UNCHANGED <<now, messages, inflight, verdict, response, ai,
                 outbox, autoReplyLog, stream, sentiment, knowledge, embed, backend, tunnel>>

\* a scan whose threshold is exclusive
IsRelevantStrict(evaluation) == evaluation.relevanceScore > ReplyThreshold

\* evaluation.relevanceScore >= replyThreshold
IsRelevant(evaluation) == evaluation.relevanceScore >= ReplyThreshold

\* runAnalysis left by the rejection of prisma.issue.update: another Issue
\* refers to the reply message
FailedOnReplyConflict == [IdleRun EXCEPT !.pc = "failed", !.error = "P2002 reply"]

\* a store whose replyMessageId column accepts duplicates
ReplyUniqueViolationOff(iss, i, replyId) == FALSE

\* Message.replyToIssue is a single optional Issue (include: { replyToIssue: true }),
\* a one-to-one relation: the column replyMessageId is unique, an update that
\* would make a second Issue refer to the message is rejected.
ReplyUniqueViolation(iss, i, replyId) ==
  \E j \in 1..Len(iss) : j # i /\ iss[j].replyMessageId = Some(replyId)

\* the data of the two prisma.issue.update calls of the reply scan
ReplyUpdate(row, status, replyId, evaluation) ==
  [row EXCEPT !.status = status,
              !.replyMessageId = Some(replyId),
              !.repliedAt = Some(messages[replyId].createdAt),
              !.replyRelevanceScore = Some(evaluation.relevanceScore)]

\* One iteration of the customer loop: the customer's recent messages, the
\* aggregator, prisma.customer.update. An error of the aggregator leaves
\* runAnalysis by exception.
SentimentStep(r, outcome) ==
  /\ run[r].pc = "sentiment"
  /\ LET st == run[r]
         c == Head(st.customerIds)
         rest == Tail(st.customerIds)
         after == [st EXCEPT !.customerIds = rest]
     IN IF RecentCustomerMessages(c) = {}
        THEN /\ sentiment' = sentiment
             /\ run' = [run EXCEPT ![r] = IF rest = <<>> THEN Returned(after) ELSE after]
        ELSE IF outcome.failed
        THEN /\ sentiment' = sentiment
             /\ run' = [run EXCEPT ![r] = Failed]
        ELSE LET got == [after EXCEPT !.sentimentAnalysis = Some(outcome.sentiment)]
             IN /\ sentiment' = [sentiment EXCEPT
                                   ![c] = MapSentimentExtended(outcome.sentiment)]
                /\ run' = [run EXCEPT ![r] = IF rest = <<>> THEN Returned(got) ELSE got]
  /\ UNCHANGED <<now, messages, inflight, issues, tags, verdict, response, ai,
                 outbox, autoReplyLog, stream, knowledge, embed, backend, tunnel>>

\* One iteration of the reply scan; after the last candidate, the next message.
ScanStep(r, ev) ==
  /\ run[r].pc = "scan"
  /\ LET st == run[r]
         next == [st EXCEPT !.pc = "loop", !.idx = @ + 1, !.cur = 0,
                            !.cands = <<>>, !.added = {}]
     IN
     IF st.cands = <<>>
     THEN /\ run' = [run EXCEPT ![r] = [next EXCEPT !.evaluation = Null]]
          /\ issues' = issues
     ELSE
       LET reply == Head(st.cands) IN
       IF ~messages[reply].content
       THEN /\ run' = [run EXCEPT ![r].cands = Tail(@), ![r].evaluation = Null]
            /\ issues' = issues
       ELSE IF ev.failed
       THEN /\ run' = [run EXCEPT ![r] = Failed]
            /\ issues' = issues
       ELSE IF (IsRelevant(ev) \/ ev.isCounterQuestion)
               /\ ReplyUniqueViolation(issues, st.cur, reply)
       THEN /\ run' = [run EXCEPT ![r] = FailedOnReplyConflict]
            /\ issues' = issues
       ELSE IF IsRelevant(ev)
       THEN /\ issues' = [issues EXCEPT ![st.cur] = ReplyUpdate(@, "REPLIED", reply, ev)]
            /\ run' = [run EXCEPT ![r] =
                         [next EXCEPT !.evaluation = Some(ev),
                                      !.results.issuesReplied = @ + 1]]
       ELSE IF ev.isCounterQuestion
       THEN /\ issues' = [issues EXCEPT
                            ![st.cur] = ReplyUpdate(@, "WAITING_CUSTOMER", reply, ev)]
            /\ run' = [run EXCEPT ![r] = [next EXCEPT !.evaluation = Some(ev)]]
       ELSE /\ run' = [run EXCEPT ![r].cands = Tail(@), ![r].evaluation = Some(ev)]
            /\ issues' = issues
  /\ UNCHANGED <<now, messages, inflight, tags, verdict, response, ai,
                 outbox, autoReplyLog, stream, sentiment, knowledge, embed, backend, tunnel>>

\* ------------------------------------------------------- tunnel service
\* getStatus(): isRunning: this.process !== null && !this.process.killed
GetStatus(t) ==
  [isRunning |-> t.process # 0 /\ ~t.procs[t.process].killed,
   url |-> t.url, startedAt |-> t.startedAt, error |-> t.error]

\* the number of the next process spawn() makes
NextProc(t) == Cardinality({p \in 1..MaxProcs : t.procs[p].state # "none"}) + 1

\* The executor of the promise of start(): error and buffer reset, spawn, the
\* 30 s timer and the listeners of the new process.
Spawn(t, op) ==
  [t EXCEPT !.error = "",
            !.process = NextProc(t),
            !.procs[NextProc(t)].state = "running",
            !.call = [NoTunnelCall EXCEPT !.op = op, !.pc = "starting",
                                          !.child = NextProc(t), !.timer = "armed"]]

\* What follows the wait of stop(): the four fields are reset; stop() returns,
\* restart() and a start() that found a tunnel running go on to spawn.
AfterStop(t) ==
  LET cleared == [t EXCEPT !.process = 0, !.url = 0, !.startedAt = Null, !.error = ""]
  IN IF t.call.op = "stop"
     THEN [cleared EXCEPT !.call.pc = "returned", !.call.result = "success",
                          !.call.timer = "none"]
     ELSE Spawn(cleared, t.call.op)

\* stop() up to its wait: SIGTERM to a process that is set and not killed, the
\* 5 s timer and the 'exit' listener; without such a process no wait.
StopThen(t, op) ==
  LET called == [t EXCEPT !.call = [NoTunnelCall EXCEPT !.op = op]] IN
  IF GetStatus(t).isRunning
  THEN [called EXCEPT !.procs[t.process].killed = TRUE,
                      !.call.pc = "stopping",
                      !.call.waitsFor = t.process,
                      !.call.timer = "armed"]
  ELSE AfterStop(called)

\* start(), stop() or restart() is called; one call at a time.
TunnelCall(op) ==
  /\ tunnel.call.pc \in {"idle", "returned"}
  /\ op # "stop" => NextProc(tunnel) <= MaxProcs
  /\ tunnel' = IF op = "start" /\ ~GetStatus(tunnel).isRunning
               THEN Spawn(tunnel, op)
               ELSE StopThen(tunnel, op)
  /\ UNCHANGED <<now, messages, inflight, issues, tags, verdict, run, response, ai,
                 outbox, autoReplyLog, stream, sentiment, knowledge, embed, backend>>

\* The 5 s timer of stop(): SIGKILL to a process that is set and not killed,
\* then the wait is over.
StopTimerFires ==
  /\ tunnel.call.pc = "stopping"
  /\ tunnel.call.timer = "armed"
  /\ tunnel' = AfterStop(IF GetStatus(tunnel).isRunning
                         THEN [tunnel EXCEPT !.procs[tunnel.process].killed = TRUE]
                         ELSE tunnel)
  /\ UNCHANGED <<now, messages, inflight, issues, tags, verdict, run, response, ai,
                 outbox, autoReplyLog, stream, sentiment, knowledge, embed, backend>>

\* this.process.on('exit') of start(): the listener of process p writes the
\* fields of the service, whichever process they describe.
ExitListener(t, p, code) ==
  [t EXCEPT !.error = IF code \notin {"0", "null"} THEN "exited" ELSE @,
            !.process = 0, !.url = 0, !.startedAt = Null]

\* Process p exits: the listener of start(), then the listener of a stop()
\* that waits for p.
ProcExit(p, code) ==
  /\ tunnel.procs[p].state = "running"
  /\ LET gone == [tunnel EXCEPT !.procs[p].state = "exited"]
         seen == ExitListener(gone, p, code)
     IN tunnel' = IF seen.call.pc = "stopping" /\ seen.call.waitsFor = p
                  THEN AfterStop(seen)
                  ELSE seen
  /\ tunnel.call.pc = "stopping" /\ tunnel.call.waitsFor = p /\ tunnel.call.op # "stop"
       => NextProc(tunnel) <= MaxProcs
  /\ UNCHANGED <<now, messages, inflight, issues, tags, verdict, run, response, ai,
                 outbox, autoReplyLog, stream, sentiment, knowledge, embed, backend>>

\* handleOutput of the start() that spawned p, on the line that carries the
\* URL: if (urlMatch && !this.url) the URL is stored, the timer of that start()
\* is cleared and its promise resolved.
ProcOutput(p) ==
  /\ tunnel.procs[p].state = "running"
  /\ ~tunnel.procs[p].printed
  /\ LET printed == [tunnel EXCEPT !.procs[p].printed = TRUE] IN
     tunnel' =
       IF tunnel.url # 0 THEN printed
       ELSE LET stored == [printed EXCEPT !.url = p, !.startedAt = Some(now)] IN
            IF tunnel.call.pc = "starting" /\ tunnel.call.child = p
            THEN [stored EXCEPT !.call.pc = "returned", !.call.result = "success",
                                !.call.url = p, !.call.timer = "cleared"]
            ELSE stored
  /\ UNCHANGED <<now, messages, inflight, issues, tags, verdict, run, response, ai,
                 outbox, autoReplyLog, stream, sentiment, knowledge, embed, backend>>

\* The 30 s timer of start(): if (!this.url) the call returns a failure.
StartTimerFires ==
  /\ tunnel.call.pc = "starting"
  /\ tunnel.call.timer = "armed"
  /\ tunnel' = IF tunnel.url = 0
               THEN [tunnel EXCEPT !.error = "timeout", !.call.pc = "returned",
                                   !.call.result = "failure", !.call.timer = "fired"]
               ELSE [tunnel EXCEPT !.call.timer = "fired"]
  /\ UNCHANGED <<now, messages, inflight, issues, tags, verdict, run, response, ai,
                 outbox, autoReplyLog, stream, sentiment, knowledge, embed, backend>>

\* this.process.on('error') of start(): cloudflared could not be spawned.
ProcError(p) ==
  /\ tunnel.procs[p].state = "running"
  /\ ~tunnel.procs[p].printed
  /\ tunnel.call.pc = "starting"
  /\ tunnel.call.child = p
  /\ tunnel' = [tunnel EXCEPT !.procs[p].state = "errored",
                              !.error = "spawn", !.process = 0,
                              !.call.pc = "returned", !.call.result = "failure",
                              !.call.timer = "cleared"]
  /\ UNCHANGED <<now, messages, inflight, issues, tags, verdict, run, response, ai,
                 outbox, autoReplyLog, stream, sentiment, knowledge, embed, backend>>

\* ------------------------------------------------------- AI orchestrator
ProviderNames == {"gemini-oauth", "claude-code-oauth", "claude", "gemini", "ollama"}

\* the two arrays providerOrder is chosen from
ClaudeFirstOrder == <<"claude-code-oauth", "gemini-oauth", "claude", "gemini", "ollama">>
GeminiFirstOrder == <<"gemini-oauth", "claude-code-oauth", "claude", "gemini", "ollama">>

\* const configuredProvider = settings['ai.provider'] || 'claude-code-oauth'
ConfiguredProvider(settings) ==
  IF settings.provider = "" THEN "claude-code-oauth" ELSE settings.provider

ProviderOrder(settings) ==
  IF ConfiguredProvider(settings) = "claude-code-oauth"
  THEN ClaudeFirstOrder ELSE GeminiFirstOrder

\* the switch of the loop: an API-key backend is pushed only when its key is set
IsPushed(settings, name) ==
  CASE name = "claude" -> settings.claudeApiKey
    [] name = "gemini" -> settings.geminiApiKey
    [] OTHER -> TRUE

\* getAllProviders(): the names of the returned list, in order
GetAllProviders(settings) ==
  LET Pushed(name) == IsPushed(settings, name)
  IN SelectSeq(ProviderOrder(settings), Pushed)

\* generateAnswerWithFallback up to its loop: the list is read once
GenerateAnswerWithFallback(settings) ==
  /\ ai.pc = "idle"
  /\ ai' = [pc |-> "trying", settings |-> settings,
            providers |-> GetAllProviders(settings), attempted |-> <<>>,
            outcomes |-> <<>>, result |-> ""]
  /\ UNCHANGED <<now, messages, inflight, issues, tags, verdict, run, response,
                 outbox, autoReplyLog, stream, sentiment, knowledge, embed, backend, tunnel>>

\* What a backend may do with one generateAnswer call.
BackendOutcomes == {"answer", "error", "timeout", "unparseable"}

\* a backend that hands an unparseable response on as an empty answer
ThrowsOnErrorOnly(outcome) == outcome \in {"error", "timeout"}

\* provider.generateAnswer: the request, JSON.parse and extractJSON are inside
\* one try whose catch rethrows; only a parsed response is returned
Throws(outcome) == outcome # "answer"

\* a loop that stays on the backend it just tried
NextProviderStuck(attempted) == IF attempted = <<>> THEN 1 ELSE Len(attempted)

\* for (const { name, provider } of providers): the position of the next backend
NextProvider(attempted) == Len(attempted) + 1

\* One iteration of the loop: provider.generateAnswer returns or throws; after
\* the last backend has thrown, 'All AI providers failed' is thrown.
TryProvider(outcome) ==
  /\ ai.pc = "trying"
  /\ LET k == NextProvider(ai.attempted)
         name == ai.providers[k]
         ok == ~Throws(outcome)
     IN ai' = [ai EXCEPT
                 !.attempted = Append(@, name),
                 !.outcomes = Append(@, outcome),
                 !.result = IF ok THEN name ELSE "",
                 !.pc = IF ok THEN "returned"
                        ELSE IF k = Len(ai.providers) THEN "failed" ELSE "trying"]
  /\ UNCHANGED <<now, messages, inflight, issues, tags, verdict, run, response,
                 outbox, autoReplyLog, stream, sentiment, knowledge, embed, backend, tunnel>>

\* The caller has the answer or the error; the call is over.
EndCall ==
  /\ ai.pc \in {"returned", "failed"}
  /\ ai' = NoCallInProgress
  /\ UNCHANGED <<now, messages, inflight, issues, tags, verdict, run, response,
                 outbox, autoReplyLog, stream, sentiment, knowledge, embed, backend, tunnel>>

\* ------------------------------------------------------- specifications
\* An input is drawn only where the handler consumes it.
NoCall == [isQuestion |-> FALSE, confidence |-> 0, failed |-> FALSE]
NoSearch == [kind |-> "none", confidence |-> 0]
NoSimilarity == [failed |-> FALSE, shouldMerge |-> FALSE, similarTag |-> ""]
NoEvaluation == [failed |-> FALSE, relevanceScore |-> 0, isCounterQuestion |-> FALSE]

\* The classifier answers of a bound on the suggested tags.
AnalysisUpTo(n) == {a \in AnalysisOutcomes : Len(a.suggestedTags) <= n}

\* the timestamps an event arriving now may carry
Stamps == {t \in 0..now : now - t <= MaxLag}

Line ==
  \E role \in Roles, content \in BOOLEAN, g \in Groups, ts \in Stamps :
    LineWebhook(role, content, g, ts)

Feishu ==
  \E role \in Roles, content \in BOOLEAN, g \in Groups, ts \in Stamps :
    FeishuWebhook(role, content, g, ts)

\* Feishu events while fewer than MaxFeishu messages are stored
EarlyFeishu == Len(messages) < MaxFeishu /\ Feishu

\* handleFeishuAutoReply where the classifier answers from Cs and searchKnowledge
\* from Ss
AutoReplyIn(Cs, Ss) ==
  \E mid \in inflight, groupEnabled \in BOOLEAN, autoReplyEnabled \in BOOLEAN,
     mentioned \in BOOLEAN :
    \E cls \in IF StreamCallsClassifier(messages[mid], groupEnabled, mentioned)
               THEN Cs ELSE {NoCall} :
      \E search \in IF StreamReachesSearch(groupEnabled, autoReplyEnabled, mentioned, cls)
                    THEN Ss ELSE {NoSearch} :
        \E sendOk \in IF StreamSends(groupEnabled, autoReplyEnabled, mentioned, cls, search)
                      THEN BOOLEAN ELSE {FALSE} :
          FeishuAutoReply(mid, groupEnabled, autoReplyEnabled, mentioned, cls,
                          search, sendOk)

AutoReply == AutoReplyIn(ClassifierOutcomes, SearchOutcomes)

\* a classifier and a retrieval that answer with full confidence
ConfidentAnswers == {c \in ClassifierAnswers : c.confidence = 100}
ConfidentMatches == {x \in SearchOutcomes : x.kind = "match" /\ x.confidence = 100}

Put == \E i \in 1..Len(issues), status \in Statuses : PutIssue(i, status)

Batch ==
  \E ids \in SUBSET (1..Len(issues)), status \in Statuses : BatchUpdateStatus(ids, status)

Start(r) == \E since \in {0, now}, g \in {0} \cup Groups : StartRun(r, since, g)

\* The second of two runs over the same window with no new message in between.
Rerun(r, first) ==
  \E since \in {0, now}, g \in {0} \cup Groups :
    /\ run[first].pc = "done"
    /\ WindowMessages(since, g) = run[first].snap
    /\ StartRun(r, since, g)

Classify(r, n) == \E analysis \in AnalysisUpTo(n) : ClassifyStep(r, analysis)

Tagging(r) ==
  \E sim \in IF run[r].pending # <<>> /\ run[r].tagNames # {}
             THEN SimilarityOutcomes ELSE {NoSimilarity} : TagStep(r, sim)

Scan(r) ==
  \E ev \in IF run[r].cands # <<>> /\ messages[Head(run[r].cands)].content
            THEN EvaluationOutcomes ELSE {NoEvaluation} : ScanStep(r, ev)

NoAggregation == [failed |-> FALSE, sentiment |-> "other"]

Rollup(r) ==
  \E outcome \in IF /\ run[r].pc = "sentiment"
                    /\ RecentCustomerMessages(Head(run[r].customerIds)) # {}
                 THEN SentimentOutcomes ELSE {NoAggregation} :
    SentimentStep(r, outcome)

\* Concurrent runAnalysis calls and Feishu events on one store: the races of
\* issue creation. The clock stands still and the classifier suggests no tag.
NextRace ==
  \/ Line
  \/ EarlyFeishu
  \/ AutoReply
  \/ \E r \in Runs : Start(r)
  \/ \E r \in Runs : LoopStep(r)
  \/ \E r \in Runs : Classify(r, 0)
  \/ \E r \in Runs : Tagging(r)
  \/ \E r \in Runs : Scan(r)

SpecRace == Init /\ [][NextRace]_vars

\* One runAnalysis call, then a second one over the same window.
NextRerun ==
  \/ Tick
  \/ Line
  \/ Start(1)
  \/ Rerun(2, 1)
  \/ \E r \in {1, 2} : LoopStep(r)
  \/ \E r \in {1, 2} : Classify(r, MaxTags)
  \/ \E r \in {1, 2} : Tagging(r)
  \/ \E r \in {1, 2} : Scan(r)

SpecRerun == Init /\ [][NextRerun]_vars

\* Every writer of Issue.status, concurrently: the two status routes, runAnalysis
\* and the Feishu path, whose AI calls answer with full confidence. The clock
\* stands still at MaxLag.
NextStatus ==
  \/ Line
  \/ EarlyFeishu
  \/ AutoReplyIn(ConfidentAnswers, ConfidentMatches)
  \/ Put
  \/ Batch
  \/ Start(1)
  \/ LoopStep(1)
  \/ Classify(1, 0)
  \/ Tagging(1)
  \/ Scan(1)

SpecStatus == InitLate /\ [][NextStatus]_vars

\* The read routes beside the writers of the engine.
NextRead ==
  \/ Tick
  \/ Line
  \/ Start(1)
  \/ LoopStep(1)
  \/ Classify(1, 0)
  \/ Tagging(1)
  \/ Scan(1)
  \/ \E i \in 1..Len(issues) : GetIssue(i)
  \/ ListIssues

SpecRead == Init /\ [][NextRead]_vars

\* The Feishu auto-reply path under every answer of its collaborators, with
\* LINE messages and one runAnalysis call beside it.
NextStream ==
  \/ Line
  \/ EarlyFeishu
  \/ AutoReply
  \/ Start(1)
  \/ LoopStep(1)
  \/ Classify(1, 0)
  \/ Tagging(1)
  \/ Scan(1)

SpecStream == InitLate /\ [][NextStream]_vars

\* One runAnalysis call over LINE messages of groups that belong to customers.
NextSentiment ==
  \/ Line
  \/ Start(1)
  \/ LoopStep(1)
  \/ Classify(1, 0)
  \/ Tagging(1)
  \/ Scan(1)
  \/ Rollup(1)

SpecSentiment == InitCustomers /\ [][NextSentiment]_vars

\* Calls of embedAllKnowledgeEntries, one after the other, over any knowledge base.
NextEmbed ==
  \/ \E force \in BOOLEAN, batchSize \in 1..MaxBatchSize :
       EmbedAllKnowledgeEntries(force, batchSize)
  \/ \E outcome \in EmbedOutcomes : EmbedEntry(outcome)
  \/ EmbedReturn

SpecEmbed == InitKnowledge /\ [][NextEmbed]_vars

\* One backend call at a time against a backend that may answer, fail, or never
\* answer. The timer of callClaude fires unless it is cleared; nothing obliges
\* the backend to answer.
NextBackends ==
  \/ \E kind \in BackendKinds : CallBackend(kind)
  \/ StdoutData
  \/ StderrData
  \/ TimerFires
  \/ \E code \in CloseCodes : ChildClose(code)
  \/ ChildError
  \/ \E outcome \in {"resolved", "request failed"} : HttpSettles(outcome)
  \/ BackendCallOver

SpecBackends == Init /\ [][NextBackends]_vars /\ WF_vars(TimerFires)

\* A customer's question, then staff messages of the same conversation.
Thread ==
  \E content \in IF messages = <<>> THEN {TRUE} ELSE BOOLEAN, ts \in Stamps :
    /\ run[1].pc = "idle"
    /\ LineWebhookThread(IF messages = <<>> THEN "EXTERNAL" ELSE "STAFF", content, 1, ts)

\* One runAnalysis call over a long conversation that took place before it.
NextThread ==
  \/ Tick
  \/ Thread
  \/ StartRun(1, 0, 0)
  \/ LoopStep(1)
  \/ Classify(1, 0)
  \/ Tagging(1)
  \/ Scan(1)

SpecThread == Init /\ [][NextThread]_vars

\* Customers' text messages in one conversation.
Questions == \E ts \in Stamps : LineWebhook("EXTERNAL", TRUE, 1, ts)

\* Concurrent runAnalysis calls whose classifier suggests tags.
NextTags ==
  \/ Questions
  \/ \E r \in Runs : Start(r)
  \/ \E r \in Runs : LoopStep(r)
  \/ \E r \in Runs : Classify(r, MaxTags)
  \/ \E r \in Runs : Tagging(r)
  \/ \E r \in Runs : Scan(r)

SpecTags == Init /\ [][NextTags]_vars

\* Staff messages that follow the customers' questions of the conversation.
Replies ==
  \E ts \in Stamps :
    /\ Len(messages) >= MaxMsgs
    /\ Len(messages) < MaxMsgs + MaxReplies
    /\ LineWebhookThread("STAFF", TRUE, 1, ts)

\* Concurrent runAnalysis calls over a conversation of several questions and
\* the staff messages after them.
NextReplies ==
  \/ Questions
  \/ Replies
  \/ \E r \in Runs : StartRun(r, 0, 0)
  \/ \E r \in Runs : LoopStep(r)
  \/ \E r \in Runs : Classify(r, 0)
  \/ \E r \in Runs : Tagging(r)
  \/ \E r \in Runs : Scan(r)

SpecReplies == InitLate /\ [][NextReplies]_vars

\* Calls of the tunnel service, one at a time, and the events of its
\* cloudflared processes in any order.
NextTunnel ==
  \/ \E op \in {"start", "stop", "restart"} : TunnelCall(op)
  \/ StopTimerFires
  \/ StartTimerFires
  \/ \E p \in 1..MaxProcs, code \in CloseCodes : ProcExit(p, code)
  \/ \E p \in 1..MaxProcs : ProcOutput(p)
  \/ \E p \in 1..MaxProcs : ProcError(p)

SpecTunnel == Init /\ [][NextTunnel]_vars

\* The settings table as an administrator may have left it.
SettingsValues ==
  [provider : ProviderNames \cup {""}, claudeApiKey : BOOLEAN, geminiApiKey : BOOLEAN]

\* Calls of generateAnswerWithFallback, one at a time, under any settings.
NextProviders ==
  \/ \E settings \in SettingsValues : GenerateAnswerWithFallback(settings)
  \/ \E outcome \in BackendOutcomes : TryProvider(outcome)
  \/ EndCall

SpecProviders == Init /\ [][NextProviders]_vars

\* ----------------------------------------------------------------- claims
\* C1: in every reachable state, whatever the interleaving of concurrent
\* runAnalysis calls and Feishu auto-reply handlers, no two Issue rows have the
\* same trigger message.
OneIssuePerTrigger ==
  \A i, j \in 1..Len(issues) :
    issues[i].triggerMessageId = issues[j].triggerMessageId => i = j

\* A runAnalysis call is past its findUnique for a message, about to create the
\* Issue, and an Issue for that message has been stored by another caller meanwhile.
RaceOnTrigger ==
  \E r \in Runs :
    /\ run[r].pc = "classify"
    /\ FindIssueByTrigger(issues, run[r].snap[run[r].idx]) # {}

\* C2 as stated: once a first runAnalysis call has returned, a second call over
\* the same window with no new message creates no Issue and reports
\* issuesCreated = 0, whatever the classifier answers on the second run.
RerunCreatesNothing ==
  [][run[1].pc = "done" =>
       /\ Len(issues') = Len(issues)
       /\ run'[2].results.issuesCreated = 0]_vars

\* C2 amended: as long as the classifier repeats on the second run the answers it
\* gave on the first, the second run asks it about no message that has an Issue,
\* creates no Issue and reports issuesCreated = 0.
RerunCreatesNothingOnSameAnswers ==
  [][run[1].pc = "done" /\ ~run'[2].flipped =>
       /\ Len(issues') = Len(issues)
       /\ run'[2].results.issuesCreated = 0
       /\ run'[2].pc = "classify" =>
            FindIssueByTrigger(issues', run'[2].snap[run'[2].idx]) = {}]_vars

\* The second run has returned after classifying again, with the first run's
\* answer, a message the first run judged not a question; Issues of the first run
\* are in the store.
RerunRepeated ==
  /\ run[2].pc = "done"
  /\ ~run[2].flipped
  /\ Len(issues) > 0
  /\ \E k \in 1..Len(run[2].snap) :
       /\ IsAnalysable(messages[run[2].snap[k]])
       /\ verdict[run[2].snap[k]] = "nq"

\* C3: every change of an Issue's status, by runAnalysis, the Feishu path,
\* PUT /issues/:id or POST /issues/batch-update-status, follows an edge of the
\* lifecycle; in particular no Issue leaves RESOLVED, TIMEOUT or IGNORED.
StatusFollowsLifecycle ==
  [][LET LifecycleEdges ==
           {<<"PENDING", "REPLIED">>, <<"REPLIED", "RESOLVED">>,
            <<"PENDING", "WAITING_CUSTOMER">>, <<"PENDING", "TIMEOUT">>,
            <<"WAITING_CUSTOMER", "TIMEOUT">>}
           \cup {<<s, "IGNORED">> : s \in {"PENDING", "REPLIED", "WAITING_CUSTOMER"}}
     IN \A i \in 1..Len(issues) :
          issues'[i].status # issues[i].status =>
            <<issues[i].status, issues'[i].status>> \in LifecycleEdges]_vars

\* C4: in every reachable state an Issue whose status is RESOLVED has a non-null
\* resolvedAt, whether PUT /issues/:id or the batch update resolved it.
ResolvedIsStamped ==
  \A i \in 1..Len(issues) :
    issues[i].status = "RESOLVED" => issues[i].resolvedAt # Null

\* Two Issues are RESOLVED, stamped with the time of the update.
BothResolved ==
  /\ Len(issues) = 2
  /\ \A i \in 1..2 : issues[i].status = "RESOLVED" /\ issues[i].resolvedAt = Some(now)

\* C5: an Issue that is PENDING or WAITING_CUSTOMER past its deadline is moved
\* to TIMEOUT when GET /issues or GET /issues/:id next reads it: after the read
\* the stored row, or at least the row the response shows, is TIMEOUT.
OverdueReadTimesOut ==
  [][LET Overdue(i) ==
           /\ issues[i].status \in {"PENDING", "WAITING_CUSTOMER"}
           /\ now > issues[i].timeoutAt
     IN \A i \in 1..Len(issues) :
          (response' # response /\ Overdue(i)) =>
            \A k \in 1..Len(response') :
              response'[k].id = i =>
                (issues'[i].status = "TIMEOUT" \/ response'[k].status = "TIMEOUT")]_vars

\* C6: whenever an Issue's status changes to TIMEOUT, its deadline is strictly
\* in the past (now > timeoutAt) and its status before was PENDING or
\* WAITING_CUSTOMER.
TimeoutOnlyAfterDeadline ==
  [][\A i \in 1..Len(issues) :
       (issues'[i].status = "TIMEOUT" /\ issues[i].status # "TIMEOUT") =>
         /\ now > issues[i].timeoutAt
         /\ issues[i].status \in {"PENDING", "WAITING_CUSTOMER"}]_vars

\* C7: in the reply scan of runAnalysis a candidate whose relevanceScore equals
\* issue.replyThreshold moves the Issue to REPLIED; a candidate one point below
\* does not: the Issue moves to WAITING_CUSTOMER if isCounterQuestion, and
\* otherwise keeps its status while the scan goes on to the next candidate.
ThresholdBoundary ==
  [][\A r \in Runs :
       (run[r].pc = "scan" /\ run'[r] # run[r] /\ run'[r].evaluation # Null) =>
         LET ev == run'[r].evaluation[1]
             cur == run[r].cur
         IN /\ ev.relevanceScore = ReplyThreshold =>
                 /\ issues'[cur].status = "REPLIED"
                 /\ issues'[cur].replyRelevanceScore = Some(ReplyThreshold)
            /\ (ev.relevanceScore = ReplyThreshold - 1 /\ ev.isCounterQuestion) =>
                 issues'[cur].status = "WAITING_CUSTOMER"
            /\ (ev.relevanceScore = ReplyThreshold - 1 /\ ~ev.isCounterQuestion) =>
                 /\ issues'[cur].status = issues[cur].status
                 /\ issues'[cur].status # "REPLIED"
                 /\ run'[r].pc = "scan"
                 /\ run'[r].cands = Tail(run[r].cands)]_vars

\* A run has just evaluated a staff reply at exactly the threshold, and the
\* Issue is REPLIED with that score.
RepliedAtThreshold ==
  \E r \in Runs, i \in 1..Len(issues) :
    /\ run[r].evaluation # Null
    /\ run[r].evaluation[1].relevanceScore = ReplyThreshold
    /\ issues[i].status = "REPLIED"
    /\ issues[i].replyRelevanceScore = Some(ReplyThreshold)

\* C8: on the batch path and on the Feishu path alike, a message of a STAFF
\* member is never passed to ai.analyzeQuestion and never is the trigger
\* message of an Issue.
StaffNeverAnalysed ==
  /\ \A m \in Classified : messages[m].role # "STAFF"
  /\ \A i \in 1..Len(issues) : messages[issues[i].triggerMessageId].role # "STAFF"

\* C9: once runAnalysis has gone through the suggested tags of an Issue, and at
\* every point before, each tag is related to the Issue at most once, also when
\* a name is suggested twice or two names are merged into one existing tag.
TagAttachedOnce ==
  \A i \in 1..Len(issues), n \in TagNames : issues[i].tags[n] <= 1

\* The tag that the next suggestion of the classifier resolves to by name is
\* already attached to the Issue at hand.
SuggestedAgain ==
  \E r \in Runs :
    /\ run[r].pc = "tags"
    /\ run[r].pending # <<>>
    /\ Head(run[r].pending) \in run[r].added
    /\ issues[run[r].cur].tags[Head(run[r].pending)] = 1

\* C10: for each of the five values of ai.provider, the list that
\* generateAnswerWithFallback iterates starts with the configured backend and
\* goes on with the other backends of the list in the one fixed fallback order.
PrimaryFirst ==
  (ai.pc # "idle" /\ ai.settings.provider \in ProviderNames) =>
    LET primary == ai.settings.provider
        Rest(name) == name # primary /\ name \in Range(ai.providers)
    IN /\ ai.providers # <<>>
       /\ Head(ai.providers) = primary
       /\ Tail(ai.providers) = SelectSeq(GeminiFirstOrder, Rest)

\* C11: within one generateAnswerWithFallback call the backends are attempted in
\* list order, each at most once and none again after it errored; the call
\* returns the result of the first backend that succeeds, and no backend is
\* attempted after that success.
AttemptsInListOrder ==
  [][/\ Len(ai'.attempted) <= Len(ai'.providers)
     /\ \A k \in 1..Len(ai'.attempted) :
          /\ k <= Len(ai'.providers) => ai'.attempted[k] = ai'.providers[k]
          /\ \A j \in 1..Len(ai'.attempted) :
               ai'.attempted[j] = ai'.attempted[k] => j = k
     /\ ai'.pc = "returned" =>
          LET n == Len(ai'.attempted)
          IN /\ ai'.outcomes[n] = "answer"
             /\ ai'.result = ai'.attempted[n]
             /\ \A k \in 1..(n - 1) : ai'.outcomes[k] # "answer"
     /\ ai.pc = "returned" => ai'.attempted = <<>>]_vars

\* The third backend of the list answered after the first two had failed.
ThirdBackendAnswered ==
  /\ ai.pc = "returned"
  /\ Len(ai.attempted) = 3
  /\ ai.result = ai.providers[3]

\* C12: generateAnswerWithFallback ends with 'All AI providers failed' exactly
\* when every backend of the list was attempted and failed (error, timeout or
\* unparseable response); a call in which no backend succeeded returns no answer.
ExhaustedIffAllFailed ==
  LET allFailed == \A k \in 1..Len(ai.outcomes) : ai.outcomes[k] # "answer"
  IN /\ ai.pc = "failed" => (allFailed /\ ai.attempted = ai.providers /\ ai.result = "")
     /\ ai.pc = "returned" => (~allFailed /\ ai.result # "")
     /\ (ai.pc = "trying" /\ allFailed) => Len(ai.attempted) < Len(ai.providers)

\* A call has ended in 'All AI providers failed' after an error, a timeout and
\* an unparseable response.
AllFailedThreeWays ==
  /\ ai.pc = "failed"
  /\ {"error", "timeout", "unparseable"} \subseteq Range(ai.outcomes)

\* C13: after handleFeishuAutoReply ran for a message of a group whose
\* auto-reply is disabled, no reply went out for it, an Issue exists for it when
\* its classification qualifies (isQuestion and confidence >= threshold), and
\* the Auto-Reply Log holds a record for it.
GroupOffStillTracks ==
  (stream # Null /\ ~stream[1].groupEnabled) =>
    LET c == stream[1]
    IN /\ \A k \in 1..Len(outbox) : outbox[k].messageId # c.mid
       /\ Qualifies(StreamAnalysis(c.mentioned, c.cls)) =>
            FindIssueByTrigger(issues, c.mid) # Null
       /\ \E k \in 1..Len(autoReplyLog) : autoReplyLog[k].messageId = c.mid

EveryRetrievalLogged ==
  (stream # Null /\ stream[1].searched) =>
    Cardinality({k \in 1..Len(autoReplyLog) :
                   autoReplyLog[k].messageId = stream[1].mid}) = 1

\* C16: an Issue created by handleFeishuAutoReply is REPLIED with repliedAt set
\* if and only if the send for its message returned a message id, and PENDING
\* without repliedAt otherwise; runAnalysis afterwards never takes that Issue
\* into its staff-reply scan and never changes it.
StreamIssueSettled ==
  [][/\ (stream' # stream /\ stream'[1].issueId # 0) =>
          LET c == stream'[1]
              row == issues'[c.issueId]
              delivered == \E k \in 1..Len(outbox') :
                             outbox'[k].messageId = c.mid /\ outbox'[k].delivered
          IN /\ row.triggerMessageId = c.mid
             /\ IF delivered
                THEN row.status = "REPLIED" /\ row.repliedAt # Null
                ELSE row.status = "PENDING" /\ row.repliedAt = Null
     /\ (stream # Null /\ stream[1].issueId # 0) =>
          /\ issues'[stream[1].issueId] = issues[stream[1].issueId]
          /\ \A r \in Runs :
               run'[r].pc \in {"tags", "scan"} => run'[r].cur # stream[1].issueId]_vars

\* handleFeishuAutoReply created a PENDING Issue after its send failed, a staff
\* message followed in the same group, and a runAnalysis call that had the
\* trigger message in its window has returned.
StaffReplyNotScanned ==
  /\ stream # Null
  /\ stream[1].issueId # 0
  /\ ~stream[1].sendOk
  /\ \E k \in 1..Len(outbox) : outbox[k].messageId = stream[1].mid
  /\ issues[stream[1].issueId].status = "PENDING"
  /\ run[1].pc = "done"
  /\ \E j \in 1..Len(run[1].snap) : run[1].snap[j] = stream[1].mid
  /\ \E m \in 1..Len(messages) :
       /\ messages[m].role = "STAFF"
       /\ messages[m].content
       /\ messages[m].groupId = messages[stream[1].mid].groupId
       /\ messages[m].createdAt > messages[stream[1].mid].createdAt

ConflictIsSkipped ==
  \A r \in Runs : ~(run[r].pc = "failed" /\ run[r].error = "P2002")

\* C19: a failing AI call (classifier, tag deduplicator, reply evaluator) aborts
\* only the analysis of its message: no runAnalysis call ends by the exception
\* of an AI call, every call goes on to the later messages and its counters.
FaultIsolated ==
  \A r \in Runs : ~(run[r].pc = "failed" /\ run[r].error = "ai")

\* C20: when the classifier call of handleFeishuAutoReply failed or timed out,
\* the handler created no Issue, called no searchKnowledge and sent no reply
\* for that message.
ClassifierFailureIsFailure ==
  (stream # Null /\ stream[1].cls.failed) =>
    /\ stream[1].issueId = 0
    /\ ~stream[1].searched
    /\ \A k \in 1..Len(outbox) : outbox[k].messageId # stream[1].mid

\* C21: embedAllKnowledgeEntries ends for every pattern of embedding and store
\* failures, having attempted every entry it selected exactly once, in order;
\* its counts add up to the number of active entries, and failed counts
\* exactly the entries whose embedding or store step failed.
EmbedCountsAddUp ==
  LET failures == {k \in 1..Len(embed.outcomes) : embed.outcomes[k] # "stored"}
      active == {e \in 1..Len(knowledge) : knowledge[e].isActive}
  IN /\ embed.results.failed = Cardinality(failures)
     /\ embed.results.success = Len(embed.outcomes) - Cardinality(failures)
     /\ embed.attempted = SubSeq(embed.entriesToProcess, 1, Len(embed.attempted))
     /\ embed.pc = "loop" => embed.batch # <<>>
     /\ embed.pc = "done" =>
          /\ embed.attempted = embed.entriesToProcess
          /\ embed.results.success + embed.results.failed + embed.results.skipped
               = Cardinality(active)

\* A call over three entries in batches of two has returned after the first
\* entry's embedding failed and a later entry was stored.
FailedEntryThenStored ==
  /\ embed.pc = "done"
  /\ Len(embed.attempted) = 3
  /\ embed.batchSize = 2
  /\ embed.outcomes[1] = "embedding failed"
  /\ embed.results.success >= 1

\* C22: every AI backend call that is pending eventually ends, by an answer or
\* as a failure, also when the backend (local HTTP model server, vendor API or
\* CLI subprocess) never responds.
HungBackendEnds == (backend.pc = "pending") ~> (backend.pc = "settled")

\* C29: in callClaude, whatever the order of the timer, the child's 'close' and
\* the child's 'error', resolve or reject is called exactly once, by the first
\* of the three; when the timer is first the child is signalled and the call
\* is rejected as a timeout, and a later 'close', also with code 0, changes
\* nothing; when 'close' or 'error' is first the timer is cleared and the
\* child is never signalled.
CliSettledOnce ==
  [][LET b == backend' IN
     b.kind = "cli" =>
       /\ b.settlements <= 1
       /\ b.finished <=> b.settlements = 1
       /\ b.finished <=> b.pc = "settled"
       /\ b.killed <=> b.settled = "timeout"
       /\ b.killed <=> b.timeout = "fired"
       /\ b.settled \in {"resolved", "exit", "spawn"} => b.timeout = "cleared"
       /\ b.settled = "resolved" => b.code = Some("0")
       /\ b.pc = "pending" => b.timeout = "set"
       /\ (backend.pc = "settled" /\ b.pc = "settled") =>
            /\ b.settled = backend.settled
            /\ b.killed = backend.killed
            /\ b.timeout = backend.timeout]_vars

\* The timer fired first, and the child then closed with exit code 0.
ClosedCleanAfterTimeout ==
  /\ backend.kind = "cli"
  /\ backend.settled = "timeout"
  /\ backend.code = Some("0")
  /\ backend.errored

ReplyScanInOrder ==
  [][LET st == run[1]
         nx == run'[1]
         eligible == {m \in 1..Len(messages) :
                        /\ messages[m].role = "STAFF"
                        /\ messages[m].groupId = messages[st.snap[st.idx]].groupId
                        /\ messages[m].createdAt > messages[st.snap[st.idx]].createdAt}
     IN
     /\ (st.pc = "tags" /\ nx.pc = "scan") =>
           /\ Len(nx.cands) = IF Cardinality(eligible) < 5 THEN Cardinality(eligible) ELSE 5
           /\ Range(nx.cands) \subseteq eligible
           /\ \A i, j \in 1..Len(nx.cands) :
                 i < j => /\ nx.cands[i] # nx.cands[j]
                          /\ messages[nx.cands[i]].createdAt <= messages[nx.cands[j]].createdAt
           /\ \A m \in eligible \ Range(nx.cands) : \A c \in Range(nx.cands) :
                 messages[c].createdAt <= messages[m].createdAt
           /\ issues[st.cur].status = "PENDING"
           /\ issues[st.cur].replyMessageId = Null
           /\ issues[st.cur].repliedAt = Null
           /\ issues[st.cur].replyRelevanceScore = Null
     /\ (st.pc = "scan" /\ nx # st) =>
           IF st.cands = <<>>
           THEN issues' = issues /\ nx.pc = "loop"
           ELSE IF issues' # issues
           THEN /\ nx.pc = "loop"
                /\ nx.evaluation # Null
                /\ messages[Head(st.cands)].content
                /\ issues' = [issues EXCEPT ![st.cur] =
                      [@ EXCEPT
                         !.status = IF nx.evaluation[1].relevanceScore >= 60
                                    THEN "REPLIED" ELSE "WAITING_CUSTOMER",
                         !.replyMessageId = Some(Head(st.cands)),
                         !.repliedAt = Some(messages[Head(st.cands)].createdAt),
                         !.replyRelevanceScore = Some(nx.evaluation[1].relevanceScore)]]
                /\ nx.evaluation[1].relevanceScore < 60 => nx.evaluation[1].isCounterQuestion
           ELSE \/ nx.pc = "failed"
                \/ /\ nx.pc = "scan"
                   /\ nx.cands = Tail(st.cands)
                   /\ \/ ~messages[Head(st.cands)].content
                      \/ /\ nx.evaluation # Null
                         /\ nx.evaluation[1].relevanceScore < 60
                         /\ ~nx.evaluation[1].isCounterQuestion]_vars

\* Six staff messages follow the question, the one with the latest timestamp
\* arrived first; the scan has gone through its five candidates, none
\* qualified, and the sixth is not among them: the Issue is still PENDING.
FiveCandidatesExhausted ==
  /\ run[1].pc = "scan"
  /\ run[1].cands = <<>>
  /\ run[1].evaluation # Null
  /\ Len(messages) = 7
  /\ messages[2].createdAt = 2
  /\ \A m \in 3..7 : messages[m].createdAt = 1 /\ messages[m].content
  /\ messages[1].createdAt = 0
  /\ issues[run[1].cur].status = "PENDING"
  /\ issues[run[1].cur].replyMessageId = Null

\* C25: every Issue row, whether runAnalysis or the Feishu handler created it,
\* has timeoutAt equal to its trigger message's createdAt plus
\* issue.timeoutMinutes.
TimeoutCountsFromTrigger ==
  \A i \in 1..Len(issues) :
    issues[i].timeoutAt = messages[issues[i].triggerMessageId].createdAt + TimeoutMinutes

\* C26: no runAnalysis call ends by the rejection of a tag create: a run that
\* suggests a new name which a concurrent run has stored since this run read
\* the tag names goes on and attaches the existing tag.
TagConflictTolerated ==
  \A r \in Runs : ~(run[r].pc = "failed" /\ run[r].error = "P2002 tag")

\* C27: every step of the tag loop that does not end the run leaves the Issue
\* attached for the suggestion: it creates one relation, to the tag of the
\* suggested name or to a tag the run knows to exist, or the tag it resolved to
\* was attached to this Issue before; and a tag's usageCount grows by one
\* exactly when a relation to it is created.
TagAttachedPerSuggestion ==
  [][\A r \in Runs :
       (/\ run[r].pc = "tags"
        /\ run[r].pending # <<>>
        /\ run'[r] # run[r]
        /\ run'[r].pc # "failed") =>
          LET name == Head(run[r].pending)
              i == run[r].cur
              targets == {name} \cup run[r].tagNames
              created == {t \in TagNames : issues'[i].tags[t] = issues[i].tags[t] + 1}
          IN /\ \A t \in TagNames :
                  /\ issues'[i].tags[t] = issues[i].tags[t] + (IF t \in created THEN 1 ELSE 0)
                  /\ tags'[t].usageCount =
                       tags[t].usageCount + (IF t \in created THEN 1 ELSE 0)
             /\ \/ \E t \in targets : created = {t} /\ tags'[t].exists
                \/ created = {} /\ \E t \in targets : issues[i].tags[t] >= 1]_vars

RestartedTunnelStays ==
  (/\ tunnel.call.op = "restart"
   /\ tunnel.call.pc = "returned"
   /\ tunnel.call.result = "success"
   /\ tunnel.procs[tunnel.call.child].state = "running") =>
     /\ GetStatus(tunnel).isRunning
     /\ GetStatus(tunnel).url = tunnel.call.url
     /\ GetStatus(tunnel).startedAt # Null
====
